---- MODULE Spec2Model ----
(***************************************************************************)
(* State-machine model of scripts/validate-dotfiles.rs: a repository       *)
(* snapshot (worktree, git index, ignore rules, the two dotter documents)  *)
(* chosen in Init and never changed, and the program run over it: main,    *)
(* the five rules of Validator::run_rules in their fixed order,            *)
(* print_result for every result, and summarize with the process exit.     *)
(* The lines --verbose adds to the output are not modelled.                *)
(* The program may be invoked again over the same snapshot, any number of  *)
(* times; the state remembers what run_rules returned the time before.     *)
(***************************************************************************)
EXTENDS Naturals, Sequences, FiniteSets, TLC

VARIABLES
    disk,        \* worktree: absolute path -> kind of the entry found there
    documents,   \* parsed content of the dotter documents: path -> set of [group, source]
    index,       \* git index: the set of tracked repository-relative paths
    ignored,     \* repository-relative paths matched by git's ignore rules
    git,         \* how the git binary behaves: "ok", "no_binary", "not_a_repo"
    config,      \* Config built from the command line: [dotfiles_dir, fix_mode]
    pc,          \* position of the process: "idle", "rules", "print", "summarize", "exited", "aborted"
    rule,        \* index of the next rule run_rules calls
    results,     \* the Vec<ValidationResult> run_rules is filling / has returned
    stdout,      \* lines printed by the current process
    exit_code,   \* <<>> while running, <<code>> once the process has ended
    returned,    \* what run_rules returned to main in the current invocation, once it has
    previous     \* what run_rules returned in the invocation before the current one, if any

snapshot == <<disk, documents, index, ignored, git>>
process == <<config, pc, rule, results, stdout, exit_code, returned, previous>>
vars == <<disk, documents, index, ignored, git, config, pc, rule, results, stdout, exit_code,
          returned, previous>>

----------------------------------------------------------------------------
(* Bounds of the model *)

\* the size of the snapshot: see Items
MaxItems == 2

----------------------------------------------------------------------------
(* Strings *)

StartsWith(s, prefix) ==
    /\ Len(s) >= Len(prefix)
    /\ SubSeq(s, 1, Len(prefix)) = prefix

EndsWith(s, suffix) ==
    /\ Len(s) >= Len(suffix)
    /\ SubSeq(s, Len(s) - Len(suffix) + 1, Len(s)) = suffix

Contains(s, pat) ==
    \E i \in 1..(Len(s) + 1) :
        /\ i + Len(pat) - 1 <= Len(s)
        /\ SubSeq(s, i, i + Len(pat) - 1) = pat

\* Option<T>: None is the empty sequence, Some(x) the one-element sequence
None == <<>>
Some(x) == <<x>>

\* PathBuf::join: an absolute argument replaces the base
Join(dir, rel) == IF StartsWith(rel, "/") THEN rel ELSE dir \o "/" \o rel

----------------------------------------------------------------------------
(* The repository the program is run over *)

DOTFILES_DIR == "/dot"
GLOBAL_TOML == ".dotter/global.toml"
MACOS_TOML == ".dotter/macos.toml"
DocPaths == {GLOBAL_TOML, MACOS_TOML}
GroupNames == {"default", "shell"}

\* source paths the dotter documents may reference
RefPaths == {"a.txt", ".gitignore_global"}
\* a file name git prints with a byte that is not valid UTF-8
NonUtf8Name == "<ff>.toml"
\* other files the index may hold
FilePaths == {"d.json", "e.jsonc", ".config/zed/s.json", "x/.config/zed/s.json",
              "c.toml", NonUtf8Name}
AllPaths == DocPaths \cup RefPaths \cup FilePaths

\* git ls-files prints the index sorted by path
LsFilesOrder == <<".config/zed/s.json", ".dotter/global.toml", ".dotter/macos.toml",
                  ".gitignore_global", "a.txt", "c.toml", "d.json", "e.jsonc",
                  "x/.config/zed/s.json", NonUtf8Name>>

\* kinds of worktree entry: nothing there; a readable regular file whose content
\* is well-formed for the grammar of its extension; a readable regular file whose
\* content is not; an entry that exists and cannot be read as text; a symbolic
\* link whose target does not exist
Kinds == {"absent", "file", "malformed", "unreadable", "dangling"}
GitModes == {"ok", "no_binary", "not_a_repo"}

Entries == [doc : DocPaths, group : GroupNames, source : RefPaths]

RECURSIVE Perms(_)
Perms(S) ==
    IF S = {} THEN {<<>>}
    ELSE UNION {{<<x>> \o p : p \in Perms(S \ {x})} : x \in S}

----------------------------------------------------------------------------
(* Types *)

Issue_new(severity, message) ==
    [severity |-> severity, message |-> message, file |-> None, fix_suggestion |-> None]

with_file(issue, file) == [issue EXCEPT !.file = Some(file)]

with_fix(issue, fix) == [issue EXCEPT !.fix_suggestion = Some(fix)]

ValidationResult_new(rule_name, passed, issues) ==
    [rule_name |-> rule_name, passed |-> passed, issues |-> issues]

\* Result<T>: Ok(value) or Err(message)
Ok(value) == [ok |-> TRUE, value |-> value]
Err(message) == [ok |-> FALSE, value |-> message]

----------------------------------------------------------------------------
(* Filesystem and git queries *)

\* Path::exists follows symbolic links
exists(path) == disk[path] \in {"file", "malformed", "unreadable"}

\* fs::read_to_string succeeds
readable(path) == disk[path] \in {"file", "malformed"}

\* toml::from_str / serde_json::from_str succeeds on the content read
parses(path) == disk[path] = "file"

is_tracked_by_git(filepath) == git = "ok" /\ filepath \in index

is_ignored_by_git(filepath) == git = "ok" /\ filepath \in ignored

\* String::from_utf8 on the output of git ls-files
from_utf8_ok(lines) == \A i \in 1..Len(lines) : lines[i] # NonUtf8Name

ls_files_output == SelectSeq(LsFilesOrder, LAMBDA p : p \in index)

\* get_tracked_files propagating a non-zero exit of git as an error
get_tracked_files_strict ==
    IF git # "ok" THEN Err("Failed to run git ls-files")
    ELSE IF ~from_utf8_ok(ls_files_output) THEN Err("Invalid UTF-8 in git output")
    ELSE Ok(SelectSeq(ls_files_output, LAMBDA s : s # ""))

get_tracked_files ==
    IF git = "no_binary" THEN Err("Failed to run git ls-files")
    ELSE IF git = "not_a_repo" THEN Ok(<<>>)
    ELSE IF ~from_utf8_ok(ls_files_output) THEN Err("Invalid UTF-8 in git output")
    ELSE Ok(SelectSeq(ls_files_output, LAMBDA s : s # ""))

is_broken_symlink(path) == disk[path] = "dangling"

----------------------------------------------------------------------------
(* Validation rules *)

\* the concatenation of a sequence of sequences: the issues pushed in a loop,
\* given for every iteration the issues (none or one) it pushes
RECURSIVE Flatten(_)
Flatten(seqs) == IF seqs = <<>> THEN <<>> ELSE Head(seqs) \o Flatten(Tail(seqs))

dotter_configs_exist ==
    LET global_toml == Join(config.dotfiles_dir, GLOBAL_TOML)
        issues == IF ~exists(global_toml)
                  THEN <<with_file(Issue_new("Error", "Dotter global.toml not found"),
                                   global_toml)>>
                  ELSE <<>>
    IN ValidationResult_new("Dotter configuration files exist", issues = <<>>, issues)

\* the loop over the documents without its exists check
existing_documents_all == <<GLOBAL_TOML, MACOS_TOML>>

\* the documents of [global_toml, macos_toml] that exist
existing_documents ==
    SelectSeq(<<GLOBAL_TOML, MACOS_TOML>>,
              LAMBDA d : exists(Join(config.dotfiles_dir, d)))

\* the first document the loop cannot read or parse, if any
failing_documents ==
    SelectSeq(existing_documents,
              LAMBDA d : ~(readable(Join(config.dotfiles_dir, d))
                           /\ parses(Join(config.dotfiles_dir, d))))

\* every (document, group, source) key of a files table the loop visits
referenced_entries ==
    UNION {{[doc |-> existing_documents[i], group |-> e.group, source |-> e.source] :
            e \in documents[existing_documents[i]]} : i \in 1..Len(existing_documents)}

\* the HashSet the sources are inserted into
all_files == {e.source : e \in referenced_entries}

\* a Vec in place of the HashSet: one element per key visited, in any order
iteration_orders_vec ==
    {[i \in 1..Len(p) |-> p[i].source] : p \in Perms(referenced_entries)}

\* the orders in which `for source in &all_files` may visit the set: the order
\* of a std HashSet depends on the per-instance random hasher keys
iteration_orders == Perms(all_files)

\* the issue pushed for one source, as a sequence of none or one issue
source_issue(source) ==
    LET filepath == Join(config.dotfiles_dir, source)
    IN  IF ~exists(filepath)
        THEN <<with_file(Issue_new("Error", "File missing: " \o source), source)>>
        ELSE IF ~is_tracked_by_git(source)
        THEN IF is_ignored_by_git(source)
             THEN <<with_fix(with_file(Issue_new("Error", "File ignored by git: " \o source),
                                       source),
                             "Add to .gitignore: !" \o source)>>
             ELSE <<with_fix(with_file(Issue_new("Warning", "File not tracked: " \o source),
                                       source),
                             "Run: git add " \o source)>>
        ELSE <<>>

\* the pass policy of the other rules
all_warnings_none(issues) == issues = <<>>

\* the pass policy of dotter_files_tracked
all_warnings(issues) == \A i \in 1..Len(issues) : issues[i].severity = "Warning"

dotter_files_tracked(order) ==
    IF failing_documents # <<>>
    THEN LET toml_path == Join(config.dotfiles_dir, Head(failing_documents))
         IN  IF ~readable(toml_path)
             THEN Err("Failed to read " \o toml_path)
             ELSE Err("Failed to parse " \o toml_path)
    ELSE LET issues == Flatten([k \in 1..Len(order) |-> source_issue(order[k])])
         IN  Ok(ValidationResult_new("Dotter files exist and are tracked",
                                     all_warnings(issues), issues))

symlink_issue(file) ==
    IF is_broken_symlink(Join(config.dotfiles_dir, file))
    THEN <<with_file(Issue_new("Error", "Broken symlink: " \o file), file)>>
    ELSE <<>>

no_broken_symlinks ==
    LET tracked == get_tracked_files
    IN  IF ~tracked.ok THEN tracked
        ELSE LET issues == Flatten([k \in 1..Len(tracked.value) |-> symlink_issue(tracked.value[k])])
             IN  Ok(ValidationResult_new("No broken symlinks", issues = <<>>, issues))

toml_issue(file) ==
    LET path == Join(config.dotfiles_dir, file)
    IN  IF readable(path) /\ ~parses(path)
        THEN <<with_file(Issue_new("Error", "Invalid TOML syntax: " \o file), file)>>
        ELSE <<>>

toml_files_valid ==
    LET tracked == get_tracked_files
    IN  IF ~tracked.ok THEN tracked
        ELSE LET toml_files == SelectSeq(tracked.value, LAMBDA f : EndsWith(f, ".toml"))
                 issues == Flatten([k \in 1..Len(toml_files) |-> toml_issue(toml_files[k])])
             IN  Ok(ValidationResult_new(
                        "All " \o ToString(Len(toml_files)) \o " TOML files are valid",
                        issues = <<>>, issues))

\* the files json_files_valid skips: JSONC files and Zed config files
json_skipped(file) == EndsWith(file, ".jsonc") \/ Contains(file, "/.config/zed/")

json_issue(file) ==
    LET path == Join(config.dotfiles_dir, file)
    IN  IF json_skipped(file) THEN <<>>
        ELSE IF readable(path) /\ ~parses(path)
        THEN <<with_file(Issue_new("Error", "Invalid JSON syntax: " \o file), file)>>
        ELSE <<>>

json_files_valid ==
    LET tracked == get_tracked_files
    IN  IF ~tracked.ok THEN tracked
        ELSE LET json_files == SelectSeq(tracked.value,
                                   LAMBDA f : EndsWith(f, ".json") \/ EndsWith(f, ".jsonc"))
                 issues == Flatten([k \in 1..Len(json_files) |-> json_issue(json_files[k])])
             IN  Ok(ValidationResult_new(
                        "All " \o ToString(Len(json_files)) \o " JSON files are valid",
                        issues = <<>>, issues))

----------------------------------------------------------------------------
(* Output *)

\* one printed line: the symbol it starts with ("PLAIN" for println!) and its text
Line(symbol, message) == [symbol |-> symbol, message |-> message]
success(message) == Line("SUCCESS", message)
failure(message) == Line("FAILURE", message)
warning(message) == Line("WARNING", message)
info(message) == Line("INFO", message)
println(message) == Line("PLAIN", message)

----------------------------------------------------------------------------
(* Validator *)

\* the lines print_result prints for one issue
print_issue(issue) ==
    LET file_str == IF issue.file = None THEN "" ELSE " (" \o issue.file[1] \o ")"
        message == "  " \o issue.message \o file_str
    IN  <<IF issue.severity = "Error" THEN failure(message) ELSE warning(message)>>
        \o (IF issue.fix_suggestion = None THEN <<>>
            ELSE <<info("    " \o issue.fix_suggestion[1])>>)

print_result(result) ==
    <<IF result.passed THEN success(result.rule_name) ELSE failure(result.rule_name)>>
    \o Flatten([k \in 1..Len(result.issues) |-> print_issue(result.issues[k])])

\* results.iter().flat_map(|r| &r.issues)
flat_issues(rs) == Flatten([i \in 1..Len(rs) |-> rs[i].issues])

\* the files of the issues whose fix suggestion contains pat
files_with_fix(rs, pat) ==
    LET hits == SelectSeq(flat_issues(rs),
                    LAMBDA i : i.fix_suggestion # None /\ Contains(i.fix_suggestion[1], pat))
        filed == SelectSeq(hits, LAMBDA i : i.file # None)
    IN  [k \in 1..Len(filed) |-> filed[k].file[1]]

ignored_files(rs) == files_with_fix(rs, ".gitignore")

untracked_files(rs) == files_with_fix(rs, "git add")

RECURSIVE join(_, _)
join(strs, sep) ==
    IF strs = <<>> THEN ""
    ELSE IF Len(strs) = 1 THEN strs[1]
    ELSE strs[1] \o sep \o join(Tail(strs), sep)

error_count(rs) == Len(SelectSeq(flat_issues(rs), LAMBDA i : i.severity = "Error"))

\* the lines of the "Fix suggestions" block
fix_suggestions(rs) ==
    <<println("Fix suggestions:")>>
    \o (IF ignored_files(rs) # <<>>
        THEN <<info("Add these lines to .gitignore:")>>
             \o [k \in 1..Len(ignored_files(rs)) |-> success("  !" \o ignored_files(rs)[k])]
             \o <<println("")>>
        ELSE <<>>)
    \o (IF untracked_files(rs) # <<>>
        THEN <<info("Run this command to track files:"),
               success("  git add " \o join(untracked_files(rs), " ")),
               println("")>>
        ELSE <<>>)

\* summarize listing the remediation groups whenever fix mode is on
summarize_fix_always(rs) ==
    LET errors == error_count(rs)
        warnings == Len(flat_issues(rs)) - errors
    IN  [lines |-> <<println("="),
                     IF errors > 0
                     THEN failure("Validation failed: " \o ToString(Len(flat_issues(rs)))
                                  \o " issue(s) found (" \o ToString(errors) \o " errors, "
                                  \o ToString(warnings) \o " warnings)")
                     ELSE IF warnings > 0
                     THEN warning("Validation completed with " \o ToString(warnings)
                                  \o " warning(s)")
                     ELSE success("All validations passed!")>>
                   \o (IF config.fix_mode THEN fix_suggestions(rs) ELSE <<>>),
         code |-> IF errors > 0 THEN 1 ELSE 0]

\* summarize failing the run on any issue, whatever its severity
summarize_any_issue(rs) ==
    IF Len(flat_issues(rs)) > 0
    THEN [lines |-> <<println("="), failure("Validation failed")>>, code |-> 1]
    ELSE [lines |-> <<println("="), success("All validations passed!")>>, code |-> 0]

\* summarize: the lines it prints and the exit code it returns
summarize(rs) ==
    LET total_issues == Len(flat_issues(rs))
        errors == error_count(rs)
        warnings == total_issues - errors
    IN  IF errors > 0
        THEN [lines |-> <<println("="),
                          failure("Validation failed: " \o ToString(total_issues)
                                  \o " issue(s) found (" \o ToString(errors) \o " errors, "
                                  \o ToString(warnings) \o " warnings)")>>
                        \o (IF config.fix_mode THEN fix_suggestions(rs) ELSE <<>>),
              code |-> 1]
        ELSE IF warnings > 0
        THEN [lines |-> <<println("="),
                          warning("Validation completed with " \o ToString(warnings)
                                  \o " warning(s)")>>,
              code |-> 0]
        ELSE [lines |-> <<println("="), success("All validations passed!")>>,
              code |-> 0]

\* the exit status of a process whose main returns Err
EXIT_FAILURE == 1

----------------------------------------------------------------------------
(* Initial states: every snapshot within the bounds *)

SubsetsUpTo(S, n) == {T \in SUBSET S : Cardinality(T) <= n}

AbsPaths == {Join(DOTFILES_DIR, p) : p \in AllPaths}

\* the worktree entries enumerated for a path, one per behaviour the program can
\* tell apart: a dotter document is absent or a regular file (well-formed,
\* malformed or unreadable); so is a tracked TOML or JSON file, which is never
\* absent; a tracked source is absent, a regular file or a dangling link;
\* an untracked source is absent or a regular file
KindsOf(p, tracked) ==
    IF p \in DocPaths THEN {"absent", "file", "malformed", "unreadable"}
    ELSE IF p = NonUtf8Name THEN {"file"}
    ELSE IF p \in FilePaths THEN {"file", "malformed", "unreadable"}
    ELSE IF p \in tracked THEN {"absent", "file", "dangling"}
    ELSE {"absent", "file"}

\* the size of a snapshot: the keys of the files tables, the tracked files, the
\* dotter documents that cannot be read or parsed, and a git that fails
Items(entries, tracked, kind, mode) ==
    Cardinality(entries) + Cardinality(tracked)
    + Cardinality({d \in DocPaths : kind[d] \in {"malformed", "unreadable"}})
    + (IF mode = "ok" THEN 0 ELSE 1)

Init ==
    /\ git \in GitModes
    /\ \E entries \in SubsetsUpTo(Entries, MaxItems) :
       \E tracked \in SubsetsUpTo(RefPaths \cup FilePaths, MaxItems - Cardinality(entries)) :
       LET referenced == {e.source : e \in entries}
           present == DocPaths \cup referenced \cup tracked
       IN  /\ index = tracked
           /\ documents = [d \in DocPaths |->
                             {[group |-> e.group, source |-> e.source] :
                              e \in {x \in entries : x.doc = d}}]
           \* what a failing git would have answered is never observed
           /\ git # "ok" => tracked = {} /\ ignored = {}
           /\ \E kind \in [present -> Kinds] :
                /\ \A p \in present : kind[p] \in KindsOf(p, tracked)
                \* git check-ignore is only asked about untracked sources that exist
                /\ ignored \in SUBSET {p \in referenced \ tracked : kind[p] = "file"}
                /\ \A e \in entries : kind[e.doc] = "file"
                /\ Items(entries, tracked, kind, git) <= MaxItems
                /\ disk = [a \in AbsPaths |->
                             LET p == CHOOSE q \in AllPaths : Join(DOTFILES_DIR, q) = a
                             IN  IF p \in present THEN kind[p] ELSE "absent"]
    /\ config \in [dotfiles_dir : {DOTFILES_DIR}, fix_mode : BOOLEAN]
    /\ pc = "idle"
    /\ rule = 1
    /\ results = <<>>
    /\ stdout = <<>>
    /\ exit_code = None
    /\ previous = None
    /\ returned = None

----------------------------------------------------------------------------
(* The program *)

\* a process starts: main up to the call of run_rules, with the Config built
\* from the same command line and environment on every invocation
main ==
    /\ pc \in {"idle", "exited", "aborted"}
    /\ pc' = "rules"
    /\ rule' = 1
    /\ results' = <<>>
    /\ stdout' = <<println("Validating dotfiles repository...")>>
    /\ exit_code' = None
    /\ previous' = returned
    /\ returned' = None
    /\ UNCHANGED <<config, snapshot>>

\* per-rule isolation: a rule that returns Err is skipped and the loop goes on
rule_returns_isolated(outcome) ==
    /\ results' = IF outcome.ok THEN Append(results, outcome.value) ELSE results
    /\ rule' = rule + 1
    /\ pc' = IF rule = 5 THEN "print" ELSE "rules"
    /\ returned' = IF rule = 5 THEN Some(Ok(results')) ELSE returned
    /\ UNCHANGED <<config, stdout, exit_code, previous, snapshot>>

\* one iteration of the loop of run_rules, the rule having returned outcome:
\* Ok is pushed, Err leaves run_rules and main through `?`
rule_returns(outcome) ==
    IF outcome.ok
    THEN /\ results' = Append(results, outcome.value)
         /\ rule' = rule + 1
         /\ pc' = IF rule = 5 THEN "print" ELSE "rules"
         /\ returned' = IF rule = 5 THEN Some(Ok(Append(results, outcome.value)))
                        ELSE returned
         /\ UNCHANGED <<config, stdout, exit_code, previous, snapshot>>
    ELSE /\ results' = <<>>
         /\ pc' = "aborted"
         /\ exit_code' = Some(EXIT_FAILURE)
         /\ returned' = Some(outcome)
         /\ UNCHANGED <<config, rule, stdout, previous, snapshot>>

run_dotter_configs_exist ==
    /\ pc = "rules" /\ rule = 1
    /\ rule_returns(Ok(dotter_configs_exist))

run_dotter_files_tracked ==
    /\ pc = "rules" /\ rule = 2
    /\ \E order \in iteration_orders : rule_returns(dotter_files_tracked(order))

run_no_broken_symlinks ==
    /\ pc = "rules" /\ rule = 3
    /\ rule_returns(no_broken_symlinks)

run_toml_files_valid ==
    /\ pc = "rules" /\ rule = 4
    /\ rule_returns(toml_files_valid)

run_json_files_valid ==
    /\ pc = "rules" /\ rule = 5
    /\ rule_returns(json_files_valid)

\* main's loop over the results
print_results ==
    /\ pc = "print"
    /\ stdout' = stdout \o Flatten([i \in 1..Len(results) |-> print_result(results[i])])
    /\ pc' = "summarize"
    /\ UNCHANGED <<config, rule, results, exit_code, previous, returned, snapshot>>

\* summarize and std::process::exit
summarize_and_exit ==
    /\ pc = "summarize"
    /\ stdout' = stdout \o summarize(results).lines
    /\ exit_code' = Some(summarize(results).code)
    /\ pc' = "exited"
    /\ UNCHANGED <<config, rule, results, previous, returned, snapshot>>

Next ==
    \/ main
    \/ run_dotter_configs_exist
    \/ run_dotter_files_tracked
    \/ run_no_broken_symlinks
    \/ run_toml_files_valid
    \/ run_json_files_valid
    \/ print_results
    \/ summarize_and_exit

Spec == Init /\ [][Next]_vars

----------------------------------------------------------------------------
(* Vocabulary of the properties, stated on the snapshot itself *)

Abs(p) == Join(DOTFILES_DIR, p)

OnDisk(p) == disk[Abs(p)] \in {"file", "malformed", "unreadable"}

Severities(rs) == {flat_issues(rs)[k].severity : k \in 1..Len(flat_issues(rs))}

\* the issues of result r that name file f
IssuesNaming(r, f) == SelectSeq(r.issues, LAMBDA i : i.file = Some(f))

\* the sources referenced from the dotter documents that exist
Referenced ==
    UNION {{e.source : e \in documents[d]} : d \in {x \in DocPaths : OnDisk(x)}}

\* how many files tables of the existing documents reference source p
TimesReferenced(p) ==
    Cardinality({x \in DocPaths \X GroupNames :
                    OnDisk(x[1]) /\ [group |-> x[2], source |-> p] \in documents[x[1]]})

Header == <<println("Validating dotfiles repository...")>>

Printed(line) == \E k \in 1..Len(stdout) : stdout[k] = line

Finished == pc = "exited"

----------------------------------------------------------------------------
(* C1 *)

----------------------------------------------------------------------------
(* C2 *)

\* C2: run_rules returns the same value (same results, same issues in the same
\* order) in two successive invocations over the unchanged snapshot with the
\* same Config.
RunRulesIdempotent ==
    (returned # None /\ previous # None) => returned = previous

----------------------------------------------------------------------------
(* C3 *)

\* the result of dotter_files_tracked, once run_rules has pushed it
HasReferenceResult == Len(results) >= 2

\* C3: the reference rule reports every distinct referenced source at most once,
\* by this decision: not on disk, one Error "missing" without fix suggestion;
\* on disk, untracked and ignored, one Error whose fix suggestion contains
\* !<path>; on disk, untracked and not ignored, one Warning whose fix suggestion
\* is a git add of the path; on disk and tracked, no issue. It reports nothing
\* else, however many files tables reference the source.
ReferenceDecision ==
    HasReferenceResult =>
        /\ \A k \in 1..Len(results[2].issues) :
              /\ results[2].issues[k].file # None
              /\ results[2].issues[k].file[1] \in Referenced
        /\ \A p \in Referenced :
              LET found == IssuesNaming(results[2], p)
              IN  IF ~OnDisk(p)
                  THEN /\ Len(found) = 1
                       /\ found[1].severity = "Error"
                       /\ Contains(found[1].message, "missing")
                       /\ found[1].fix_suggestion = None
                  ELSE IF p \in index THEN found = <<>>
                  ELSE IF p \in ignored
                  THEN /\ Len(found) = 1
                       /\ found[1].severity = "Error"
                       /\ found[1].fix_suggestion # None
                       /\ Contains(found[1].fix_suggestion[1], "!" \o p)
                  ELSE /\ Len(found) = 1
                       /\ found[1].severity = "Warning"
                       /\ found[1].fix_suggestion # None
                       /\ Contains(found[1].fix_suggestion[1], "git add " \o p)

\* a source referenced from two files tables, on disk and ignored, has been
\* reported once, next to a second source that is missing
DuplicateReferenceReportedOnce ==
    /\ HasReferenceResult
    /\ \E p \in Referenced :
          /\ TimesReferenced(p) >= 2
          /\ OnDisk(p) /\ p \in ignored
          /\ Len(IssuesNaming(results[2], p)) = 1

----------------------------------------------------------------------------
(* C4 *)

\* C4: the reference rule's result has passed exactly when all its issues are
\* warnings, every other result exactly when it has no issue; so a result has
\* failed exactly when it holds an Error.
PassedMatchesPolicy ==
    \A i \in 1..Len(results) :
        LET severities == {results[i].issues[k].severity : k \in 1..Len(results[i].issues)}
        IN  /\ i = 2 => (results[i].passed <=> severities \subseteq {"Warning"})
            /\ i # 2 => (results[i].passed <=> results[i].issues = <<>>)
            /\ ~results[i].passed <=> "Error" \in severities

\* the reference rule has passed with a warning and the run has ended with 0
WarningOnlyReferenceResultPasses ==
    /\ Finished
    /\ results[2].passed
    /\ results[2].issues # <<>>
    /\ exit_code = Some(0)

----------------------------------------------------------------------------
(* C5 *)

\* a dotter document that exists and cannot be read or parsed
FatalDocument == \E d \in DocPaths : disk[Abs(d)] \in {"malformed", "unreadable"}

\* git cannot be started, or prints a path that is not valid UTF-8
FatalListing == git = "no_binary" \/ (git = "ok" /\ NonUtf8Name \in index)

\* C5: a fatal error of a rule aborts the run: the rule that fails is the last
\* one called (rule 2 for a document, rule 3 for the tracked-file listing), the
\* results gathered are dropped, nothing but the banner has been printed, and
\* the process has ended with a non-zero status.
FatalErrorAbortsRun ==
    /\ pc = "aborted" =>
          /\ results = <<>>
          /\ stdout = Header
          /\ exit_code # None /\ exit_code # Some(0)
          /\ returned # None /\ ~returned[1].ok
    /\ FatalDocument => rule <= 2 /\ pc \in {"idle", "rules", "aborted"}
    /\ FatalListing => rule <= 3 /\ pc \in {"idle", "rules", "aborted"}

\* the listing has failed in the third rule, after two results were gathered
AbortedAfterTwoResults ==
    /\ pc = "aborted"
    /\ rule = 3
    /\ FatalListing
    /\ results = <<>>

----------------------------------------------------------------------------
(* C6 *)

----------------------------------------------------------------------------
(* C7 *)

\* under the directory .config/zed, at the root of the repository or deeper
UnderZedDirectory(f) == StartsWith(f, ".config/zed/") \/ Contains(f, "/.config/zed/")

\* C7: the JSON rule reports a tracked file exactly when its name ends with
\* .json, it is not under .config/zed (at any depth, the repository root
\* included), it can be read and its content is not strict JSON, and then
\* once; the TOML rule reports only readable files whose name ends with .toml.
StructuredRulesReportExactly ==
    Len(results) >= 5 =>
        \A f \in index :
            /\ Len(IssuesNaming(results[5], f)) =
                  (IF /\ EndsWith(f, ".json")
                      /\ ~UnderZedDirectory(f)
                      /\ disk[Abs(f)] = "malformed"
                   THEN 1 ELSE 0)
            /\ IssuesNaming(results[4], f) # <<>> =>
                  EndsWith(f, ".toml") /\ disk[Abs(f)] = "malformed"

----------------------------------------------------------------------------
(* C8 *)

\* C8: when .dotter/global.toml is missing, the config-existence result has
\* failed with one Error naming the expected path, the reference rule neither
\* aborts on the missing document nor reports it, and the run ends with 1.
MissingPrimaryDocument ==
    ~OnDisk(GLOBAL_TOML) =>
        /\ Len(results) >= 1 =>
              /\ ~results[1].passed
              /\ Len(results[1].issues) = 1
              /\ results[1].issues[1].severity = "Error"
              /\ results[1].issues[1].file = Some(Abs(GLOBAL_TOML))
        /\ Len(results) >= 2 =>
              \A k \in 1..Len(results[2].issues) :
                  results[2].issues[k].file[1] \in {e.source : e \in documents[MACOS_TOML]}
        /\ (pc = "aborted" /\ rule = 2) => disk[Abs(MACOS_TOML)] \in {"malformed", "unreadable"}
        /\ exit_code # None => exit_code = Some(1)

\* without the primary document a run has gone through the reference rule,
\* which passed, and ended with exit code 1
MissingPrimaryDocumentRunEnds ==
    /\ ~OnDisk(GLOBAL_TOML)
    /\ Finished
    /\ results[2].passed
    /\ exit_code = Some(1)

----------------------------------------------------------------------------
(* C9 *)

HowMany(rs, severity) == Len(SelectSeq(flat_issues(rs), LAMBDA i : i.severity = severity))

\* a line of the aggregated remediation groups
GroupLine(line) ==
    \/ line \in {println("Fix suggestions:"), info("Add these lines to .gitignore:"),
                 info("Run this command to track files:")}
    \/ /\ line.symbol = "SUCCESS"
       /\ StartsWith(line.message, "  !") \/ StartsWith(line.message, "  git add ")

GroupsListed == \E k \in 1..Len(stdout) : GroupLine(stdout[k])

\* C9: the remediation groups are listed only in fix mode with an Error; with
\* warnings and no Error the run reports "completed with" the number of
\* Warning issues, exits 0 and lists no group; with an Error the reported
\* counts are the total, the Errors and the Warnings.
RemediationOnlyOnFailure ==
    Finished =>
        LET errors == HowMany(results, "Error")
            warnings == HowMany(results, "Warning")
        IN  /\ GroupsListed => config.fix_mode /\ errors > 0
            /\ (errors = 0 /\ warnings > 0) =>
                  /\ Printed(warning("Validation completed with " \o ToString(warnings)
                                     \o " warning(s)"))
                  /\ exit_code = Some(0)
            /\ errors > 0 =>
                  Printed(failure("Validation failed: " \o ToString(errors + warnings)
                                  \o " issue(s) found (" \o ToString(errors) \o " errors, "
                                  \o ToString(warnings) \o " warnings)"))

\* fix mode, a Warning carrying a fix suggestion, no Error: the run has ended
FixModeWarningsOnly ==
    /\ Finished
    /\ config.fix_mode
    /\ HowMany(results, "Error") = 0
    /\ \E k \in 1..Len(flat_issues(results)) : flat_issues(results)[k].fix_suggestion # None

----------------------------------------------------------------------------
(* C10 *)

Elements(seq) == {seq[k] : k \in 1..Len(seq)}

\* the files of the issues whose message starts with prefix
FilesOfFinding(prefix) ==
    {i.file[1] : i \in {x \in Elements(flat_issues(results)) :
                         x.file # None /\ StartsWith(x.message, prefix)}}

\* C10: in fix mode with an Error, the ignore-list group holds exactly the
\* files found "ignored by git", the add command exactly the files found "not
\* tracked", and no file is in both.
RemediationGroupsPartition ==
    (Finished /\ config.fix_mode /\ HowMany(results, "Error") > 0) =>
        /\ Elements(ignored_files(results)) = FilesOfFinding("File ignored by git")
        /\ Elements(untracked_files(results)) = FilesOfFinding("File not tracked")
        /\ \A p \in RefPaths :
              ~(Printed(success("  !" \o p)) /\ p \in Elements(untracked_files(results)))

====
